---- MODULE Spec2Model ----
(***************************************************************************)
(* Model of mcp/examples/ai-assistant-integration.py: the MCPClient        *)
(* JSON-RPC client, the DatabaseAssistant built on it, and the script's    *)
(* main block.  The remote MCP server is the environment: every POST is    *)
(* answered by a response drawn from a bounded set.                        *)
(*                                                                         *)
(* Python values: a dict is a function with string keys, None is the       *)
(* record None, a list is List(<<...>>).  A call either returns a value    *)
(* (Return) or raises (Raise).                                             *)
(***************************************************************************)
EXTENDS Integers, Sequences, FiniteSets, TLC

VARIABLES pc, idx, sessions, clients, sent, calls, posts, out, context, asked, last

vars == <<pc, idx, sessions, clients, sent, calls, posts, out, context, asked, last>>

-----------------------------------------------------------------------------
(* Bounds of the model *)

MaxCalls == 3

-----------------------------------------------------------------------------
(* Python values *)

None == [py |-> "None"]
EmptyDict == [k \in {} |-> None]
List(s) == [py |-> "list", items |-> s]
IsList(v) == "py" \in DOMAIN v /\ v.py = "list"

\* Python truthiness of None, a dict or a list (the operand of `x or default`)
Truthy(v) ==
    /\ v # None
    /\ IF IsList(v) THEN v.items # <<>> ELSE DOMAIN v # {}

Return(v) == [kind |-> "return", value |-> v]
\* a string: the JSON text of a document, or plain text
Json(v) == [json |-> v]
Plain(m) == [plain |-> m]

\* an exception of class type whose str() is the literal prefix followed by
\* the string arg
Raise(type, prefix, arg) == [kind |-> "raise", type |-> type, prefix |-> prefix, arg |-> arg]
Raised(o) == o.kind = "raise"
TextContains(o, m) == o.arg = m

json_loads(t) ==
    IF "json" \in DOMAIN t THEN Return(t.json)
    ELSE Raise("JSONDecodeError", "Expecting value: ", t)

-----------------------------------------------------------------------------
(* The server's responses *)

NotJson == [py |-> "notjson"]
Messages == {"E1", "E2"}
ToolMessages == {"T1"}
\* a JSON-RPC error object, with or without its 'message' member
Errors == {[message |-> Plain(m)] : m \in Messages} \cup {[code |-> "-32600"]}

Contents(payloads) ==
    {<<>>} \cup {<<[text |-> Json(p)]>> : p \in payloads}
           \cup {<<[text |-> Plain(m)]>> : m \in ToolMessages}
\* a tools/call result: isError absent, true or false
ToolResults(payloads) ==
    {[content |-> c] : c \in Contents(payloads)}
    \cup {[isError |-> TRUE, content |-> c] : c \in Contents(payloads)}
    \cup {[isError |-> FALSE, content |-> <<[text |-> Json(p)]>>] : p \in payloads}
InitResults ==
    {[serverInfo |-> [name |-> "redi-orm", version |-> "1.0"]],
     [protocolVersion |-> "2024-11-05"]}
ErrorBodies ==
    {[error |-> e] : e \in Errors}
    \cup {[error |-> e, result |-> EmptyDict] : e \in Errors}
Bodies(results) ==
    {EmptyDict, NotJson} \cup {[result |-> r] : r \in results} \cup ErrorBodies
\* an HTTP response: 2xx with any body, or 4xx/5xx whose body may still be a
\* JSON-RPC error document
Responses(results) ==
    [status_ok : {TRUE}, body : Bodies(results)]
    \cup [status_ok : {FALSE}, body : {NotJson} \cup ErrorBodies]

-----------------------------------------------------------------------------
(* class MCPClient *)

\* mutant: params passed through as given
Payload_raw(method, params, id) ==
    [jsonrpc |-> "2.0", method |-> method, params |-> params, id |-> id]

Payload(method, params, id) ==
    [jsonrpc |-> "2.0",
     method |-> method,
     params |-> IF Truthy(params) THEN params ELSE EmptyDict,
     id |-> id]

\* mutant: 'result' is looked at before 'error'
Answer_result_first(resp) ==
    IF ~resp.status_ok THEN Raise("HTTPError", "Server Error for url: ", Plain("url"))
    ELSE IF resp.body = NotJson THEN Raise("JSONDecodeError", "Expecting value: ", Plain(""))
    ELSE IF "result" \in DOMAIN resp.body THEN Return(resp.body.result)
    ELSE IF "error" \in DOMAIN resp.body
         THEN IF "message" \in DOMAIN resp.body.error
              THEN Raise("Exception", "MCP Error: ", resp.body.error.message)
              ELSE Raise("KeyError", "", Plain("message"))
    ELSE Return(None)

\* what call_method makes of the response: raise_for_status(), json(),
\* the 'error' member, get('result')
Answer(resp) ==
    IF ~resp.status_ok THEN Raise("HTTPError", "Server Error for url: ", Plain("url"))
    ELSE IF resp.body = NotJson THEN Raise("JSONDecodeError", "Expecting value: ", Plain(""))
    ELSE IF "error" \in DOMAIN resp.body
         THEN IF "message" \in DOMAIN resp.body.error
              THEN Raise("Exception", "MCP Error: ", resp.body.error.message)
              ELSE Raise("KeyError", "", Plain("message"))
    ELSE IF "result" \in DOMAIN resp.body THEN Return(resp.body.result)
    ELSE Return(None)

\* mutant: requests.post(...) in place of self.session.post(...): the module
\* function opens a session of its own for the one request
PostOnce_own_session(c, payload, resp) ==
    [client |-> c, posted |-> <<payload>>, calls |-> 1, via |-> 0,
     ok |-> ~Raised(Answer(resp)), outcome |-> Answer(resp)]

\* self.session.post(...) once, then the answer is read.  posted: the
\* payloads posted; calls: call_method invocations; via: the session posted
\* through; ok: the request itself succeeded
PostOnce(c, payload, resp) ==
    [client |-> c, posted |-> <<payload>>, calls |-> 1, via |-> c.session,
     ok |-> ~Raised(Answer(resp)), outcome |-> Answer(resp)]

\* mutant: a request that was not answered 2xx is posted a second time
call_method_retry(c, method, params, resp) ==
    LET r == PostOnce([c EXCEPT !.request_id = @ + 1],
                      Payload(method, params, c.request_id), resp)
    IN  IF resp.status_ok THEN r ELSE [r EXCEPT !.posted = @ \o @]

\* mutant: request_id advances only once the request has succeeded
call_method_inc_late(c, method, params, resp) ==
    LET r == PostOnce(c, Payload(method, params, c.request_id), resp)
    IN  IF Raised(r.outcome) THEN r
        ELSE [r EXCEPT !.client = [c EXCEPT !.request_id = @ + 1]]

call_method(c, method, params, resp) ==
    PostOnce([c EXCEPT !.request_id = @ + 1],
             Payload(method, params, c.request_id), resp)

call_tool(c, tool_name, arguments, resp) ==
    LET r == call_method(c, "tools/call",
                         [name |-> tool_name, arguments |-> arguments], resp)
        result == r.outcome.value
        o == IF result = None THEN Raise("AttributeError", "", Plain("get"))
             ELSE IF "content" \notin DOMAIN result THEN Raise("KeyError", "", Plain("content"))
             ELSE IF result.content = <<>>
                  THEN Raise("IndexError", "", Plain("list index out of range"))
             ELSE IF "isError" \in DOMAIN result /\ result.isError
                  THEN Raise("Exception", "Tool error: ", result.content[1].text)
             ELSE json_loads(result.content[1].text)
    IN  IF Raised(r.outcome) THEN r
        ELSE [r EXCEPT !.outcome = o, !.ok = ~Raised(o)]

query(c, sql, parameters, resp) ==
    call_tool(c, "query",
              [sql |-> sql,
               parameters |-> IF Truthy(parameters) THEN parameters ELSE List(<<>>)],
              resp)

get_tables(c, resp) ==
    LET r == call_tool(c, "list_tables", EmptyDict, resp)
        result == r.outcome.value
    IN  IF Raised(r.outcome) THEN r
        ELSE [r EXCEPT !.outcome =
            IF "tables" \in DOMAIN result THEN Return(List(result.tables))
            ELSE Raise("KeyError", "", Plain("tables"))]

analyze_table(c, table, columns, resp) ==
    LET args == IF Truthy(columns) THEN [table |-> table, columns |-> columns]
                ELSE [table |-> table]
    IN  call_tool(c, "analyze_table", args, resp)

InitializeParams ==
    [protocolVersion |-> "2024-11-05",
     capabilities |-> EmptyDict,
     clientInfo |-> [name |-> "ai-assistant-client", version |-> "1.0.0"]]

\* the outcome is what _initialize returns or raises; printed is what it prints
_initialize(c, resp) ==
    LET r == call_method(c, "initialize", InitializeParams, resp)
        result == r.outcome.value
        o == IF Raised(r.outcome) THEN r.outcome
             ELSE IF result = None THEN Raise("TypeError", "", Plain("NoneType"))
             ELSE IF "serverInfo" \notin DOMAIN result
                  THEN Raise("KeyError", "", Plain("serverInfo"))
             ELSE Return(None)
    IN  [client |-> r.client, posted |-> r.posted, calls |-> r.calls, via |-> r.via,
         ok |-> r.ok, outcome |-> o,
         printed |-> IF Raised(o) THEN <<>> ELSE <<"Connected to MCP server">>]

\* mutant: a failed _initialize is swallowed and the object is handed out
MCPClient_swallow(session, resp) ==
    LET r == _initialize([session |-> session, request_id |-> 1], resp)
    IN  [r EXCEPT !.client = [session |-> r.client.session,
                              request_id |-> r.client.request_id,
                              ready |-> TRUE]]

\* MCPClient(): session is the requests.Session() the constructor creates.
\* ready: the constructor returned, so the caller holds the object.
MCPClient(session, resp) ==
    LET r == _initialize([session |-> session, request_id |-> 1], resp)
    IN  [r EXCEPT !.client = [session |-> r.client.session,
                              request_id |-> r.client.request_id,
                              ready |-> ~Raised(r.outcome)]]

-----------------------------------------------------------------------------
(* Recording what an operation did in the state *)

\* one entry of the traffic log per POST: who sent it, over which session,
\* for which tool, and whether the request succeeded
Traffic(i, r) ==
    [k \in DOMAIN r.posted |->
        [client |-> i, session |-> r.via,
         method |-> r.posted[k].method, id |-> r.posted[k].id,
         tool |-> IF r.posted[k].method = "tools/call"
                     /\ "name" \in DOMAIN r.posted[k].params
                  THEN r.posted[k].params.name ELSE "",
         ok |-> r.ok]]

Record(i, op, args, resp, r) ==
    /\ sent' = sent \o Traffic(i, r)
    /\ calls' = calls + r.calls
    /\ posts' = posts + Len(r.posted)
    /\ last' = [op |-> op, client |-> i, args |-> args, resp |-> resp,
                posted |-> r.posted, outcome |-> r.outcome]

Update(i, r) ==
    clients' = [clients EXCEPT ![i] = [@ EXCEPT !.request_id = r.client.request_id]]

NoLast == [op |-> "none"]

-----------------------------------------------------------------------------
(* SpecClient: a caller that constructs MCPClient objects and uses their    *)
(* public methods with arbitrary arguments                                  *)

ApiPayloads == {[tables |-> <<"customers">>], [results |-> <<>>]}
ApiResults == ToolResults(ApiPayloads) \cup InitResults
ApiResponses == Responses(ApiResults)
ApiMethods == {"tools/call", "ping"}
ApiDicts == {None, EmptyDict, [cursor |-> "x"]}
ApiLists == {None, List(<<>>), List(<<"a">>)}
ApiTools == {"query", "list_tables"}

InitClient ==
    /\ pc = "api"
    /\ idx = 0
    /\ sessions = 0
    /\ clients = <<>>
    /\ sent = <<>>
    /\ calls = 0
    /\ posts = 0
    /\ out = <<>>
    /\ context = None
    /\ asked = <<>>
    /\ last = NoLast

ApiNew ==
    /\ pc = "api"
    /\ calls < MaxCalls
    /\ \E resp \in ApiResponses :
        LET r == MCPClient(sessions + 1, resp)
            i == Len(clients) + 1
        IN  /\ sessions' = sessions + 1
            /\ clients' = Append(clients, r.client)
            /\ out' = out \o r.printed
            /\ Record(i, "MCPClient", None, resp, r)
    /\ UNCHANGED <<pc, idx, context, asked>>

ApiCallMethod ==
    /\ pc = "api"
    /\ calls < MaxCalls
    /\ \E i \in DOMAIN clients, method \in ApiMethods, params \in ApiDicts,
          resp \in ApiResponses :
        /\ clients[i].ready
        /\ LET r == call_method(clients[i], method, params, resp)
           IN  /\ Update(i, r)
               /\ Record(i, "call_method", [method |-> method, params |-> params], resp, r)
    /\ UNCHANGED <<pc, idx, sessions, out, context, asked>>

ApiCallTool ==
    /\ pc = "api"
    /\ calls < MaxCalls
    /\ \E i \in DOMAIN clients, tool \in ApiTools, arguments \in ApiDicts \ {None},
          resp \in ApiResponses :
        /\ clients[i].ready
        /\ LET r == call_tool(clients[i], tool, arguments, resp)
           IN  /\ Update(i, r)
               /\ Record(i, "call_tool", [name |-> tool, arguments |-> arguments], resp, r)
    /\ UNCHANGED <<pc, idx, sessions, out, context, asked>>

ApiQuery ==
    /\ pc = "api"
    /\ calls < MaxCalls
    /\ \E i \in DOMAIN clients, parameters \in ApiLists, resp \in ApiResponses :
        /\ clients[i].ready
        /\ LET r == query(clients[i], [sql |-> "SELECT 1"], parameters, resp)
           IN  /\ Update(i, r)
               /\ Record(i, "query", [sql |-> [sql |-> "SELECT 1"], parameters |-> parameters], resp, r)
    /\ UNCHANGED <<pc, idx, sessions, out, context, asked>>

ApiGetTables ==
    /\ pc = "api"
    /\ calls < MaxCalls
    /\ \E i \in DOMAIN clients, resp \in ApiResponses :
        /\ clients[i].ready
        /\ LET r == get_tables(clients[i], resp)
           IN  /\ Update(i, r)
               /\ Record(i, "get_tables", None, resp, r)
    /\ UNCHANGED <<pc, idx, sessions, out, context, asked>>

ApiAnalyzeTable ==
    /\ pc = "api"
    /\ calls < MaxCalls
    /\ \E i \in DOMAIN clients, columns \in ApiLists, resp \in ApiResponses :
        /\ clients[i].ready
        /\ LET r == analyze_table(clients[i], "sales", columns, resp)
           IN  /\ Update(i, r)
               /\ Record(i, "analyze_table", [table |-> "sales", columns |-> columns], resp, r)
    /\ UNCHANGED <<pc, idx, sessions, out, context, asked>>

NextClient ==
    \/ ApiNew
    \/ ApiCallMethod
    \/ ApiCallTool
    \/ ApiQuery
    \/ ApiGetTables
    \/ ApiAnalyzeTable

SpecClient == InitClient /\ [][NextClient]_vars

-----------------------------------------------------------------------------
(* Claims about MCPClient, checked under SpecClient *)

ClientLog(i) == SelectSeq(sent, LAMBDA e : e.client = i)
ToolOps == {"call_tool", "query", "get_tables", "analyze_table"}
Called == last.op # "none"
Body == last.resp.body
HasErrorMessage == "error" \in DOMAIN Body /\ "message" \in DOMAIN Body.error
\* the tools/call result call_tool got back from call_method
GotToolResult ==
    /\ last.op \in ToolOps
    /\ last.resp.status_ok
    /\ DOMAIN Body = {"result"}
    /\ "content" \in DOMAIN Body.result
ToolError ==
    /\ GotToolResult
    /\ "isError" \in DOMAIN Body.result
    /\ Body.result.isError
    /\ Body.result.content # <<>>
ToolErrorRaised ==
    ToolError =>
        /\ Raised(last.outcome)
        /\ last.outcome.type = "Exception"
        /\ TextContains(last.outcome, Body.result.content[1].text)

\* C1 as stated: every response that contains an 'error' member makes
\* call_method raise an exception whose text contains error.message, and every
\* tool result with a truthy isError makes call_tool raise an exception whose
\* text contains content[0].text instead of decoding or returning the content.
C1_AsStated ==
    Called =>
        /\ HasErrorMessage =>
              Raised(last.outcome) /\ TextContains(last.outcome, Body.error.message)
        /\ ToolErrorRaised

\* C1 amended: the same, for responses that arrive with a 2xx HTTP status; a
\* response with an HTTP error status raises the HTTP error, body unread.
C1_ErrorsRaised ==
    Called =>
        /\ (last.resp.status_ok /\ HasErrorMessage) =>
              /\ Raised(last.outcome)
              /\ last.outcome.type = "Exception"
              /\ TextContains(last.outcome, Body.error.message)
        /\ (~last.resp.status_ok) =>
              Raised(last.outcome) /\ last.outcome.type = "HTTPError"
        /\ ToolErrorRaised

C1_Witness ==
    /\ Called
    /\ last.resp.status_ok
    /\ HasErrorMessage
    /\ "result" \in DOMAIN Body
    /\ Raised(last.outcome)

\* C3: no retry: every call_method invocation posts exactly once, the number
\* of POSTs equals the number of invocations, and no request (client, id) is
\* ever posted twice, whether or not it failed.
C3_NoRetry ==
    /\ posts = calls
    /\ Len(sent) = calls
    /\ Called => Len(last.posted) = 1
    /\ \A j, k \in DOMAIN sent :
          (j < k /\ sent[j].client = sent[k].client) => sent[j].id # sent[k].id

C3_Witness ==
    \E j, k \in DOMAIN sent :
        /\ j < k
        /\ sent[j].client = sent[k].client
        /\ ~sent[j].ok
        /\ sent[j].method = "tools/call"
        /\ ~last.resp.status_ok

\* C5: every request is a JSON-RPC 2.0 envelope with jsonrpc, method, params
\* and id; every tool invocation is sent as tools/call with params of exactly
\* name and arguments; the only other request the client sends of its own
\* accord is initialize; call_method given None or {} sends params = {}.
C5_Envelope ==
    Called =>
        LET e == last.posted[1] IN
        /\ DOMAIN e = {"jsonrpc", "method", "params", "id"}
        /\ e.jsonrpc = "2.0"
        /\ e.id \in Nat
        /\ e.params # None
        /\ last.op \in ToolOps =>
              /\ e.method = "tools/call"
              /\ DOMAIN e.params = {"name", "arguments"}
              /\ e.params.arguments # None
        /\ last.op = "call_tool" =>
              /\ e.params.name = last.args.name
              /\ e.params.arguments = last.args.arguments
        /\ last.op = "query" => e.params.name = "query"
        /\ last.op = "get_tables" => e.params.name = "list_tables"
        /\ last.op = "analyze_table" => e.params.name = "analyze_table"
        /\ last.op = "MCPClient" <=> e.method = "initialize"
        /\ last.op # "call_method" => e.method \in {"tools/call", "initialize"}
        /\ last.op = "call_method" =>
              /\ e.method = last.args.method
              /\ e.params = IF last.args.params \in {None, EmptyDict}
                            THEN EmptyDict ELSE last.args.params

C5_Witness ==
    /\ last.op = "call_method"
    /\ last.args.params = None
    /\ last.posted[1].params = EmptyDict

\* C6: the first request of every client is initialize with id 1; a client
\* sends tools/call only after its initialize completed successfully; when
\* initialize fails the constructor fails and the object is not usable.
C6_InitializeFirst ==
    \A i \in DOMAIN clients :
        LET log == ClientLog(i) IN
        /\ log # <<>>
        /\ log[1].method = "initialize"
        /\ log[1].id = 1
        /\ (\E k \in DOMAIN log : log[k].method = "tools/call") => log[1].ok
        /\ ~log[1].ok => (~clients[i].ready /\ Len(log) = 1)

C6_Witness ==
    /\ Len(clients) = 2
    /\ ~clients[1].ready
    /\ clients[2].ready
    /\ \E k \in DOMAIN sent : sent[k].client = 2 /\ sent[k].method = "tools/call"

\* C8: within one client the ids are 1, 2, 3, ... in send order and after n
\* invocations request_id = n + 1, whatever the outcomes of the requests.
C8_RequestIds ==
    \A i \in DOMAIN clients :
        LET log == ClientLog(i) IN
        /\ \A k \in DOMAIN log : log[k].id = k
        /\ clients[i].request_id = Len(log) + 1

C8_Witness ==
    \E i \in DOMAIN clients :
        LET log == ClientLog(i) IN
        /\ Len(log) >= 3
        /\ ~log[2].ok
        /\ clients[i].request_id = 4

-----------------------------------------------------------------------------
(* Strings the assistant matches on: a str is the sequence of its characters *)

S_how_many == <<"h", "o", "w", " ", "m", "a", "n", "y">>
S_top == <<"t", "o", "p">>
S_by == <<"b", "y">>
S_customers == <<"c", "u", "s", "t", "o", "m", "e", "r", "s">>
S_revenue == <<"r", "e", "v", "e", "n", "u", "e">>
S_average == <<"a", "v", "e", "r", "a", "g", "e">>
S_avg == <<"a", "v", "g">>
S_order == <<"o", "r", "d", "e", "r">>
S_sale == <<"s", "a", "l", "e">>
S_trend == <<"t", "r", "e", "n", "d">>
S_over_time == <<"o", "v", "e", "r", " ", "t", "i", "m", "e">>
S_sales == <<"s", "a", "l", "e", "s">>
S_products == <<"p", "r", "o", "d", "u", "c", "t", "s">>
S_orders == <<"o", "r", "d", "e", "r", "s">>
S_users == <<"u", "s", "e", "r", "s">>
S_logs == <<"l", "o", "g", "s">>
S_Sales == <<"S", "a", "l", "e", "s">>
W_How_many == <<"H", "o", "w", " ", "m", "a", "n", "y">>
W_by_revenue == <<"b", "y", " ", "r", "e", "v", "e", "n", "u", "e">>
Q1 == <<"H", "o", "w", " ", "m", "a", "n", "y", " ", "c", "u", "s", "t", "o", "m", "e", "r", "s", " ", "d", "o", " ", "w", "e", " ", "h", "a", "v", "e", "?">>
Q2 == <<"W", "h", "a", "t", "'", "s", " ", "t", "h", "e", " ", "a", "v", "e", "r", "a", "g", "e", " ", "o", "r", "d", "e", "r", " ", "v", "a", "l", "u", "e", "?">>
Q3 == <<"S", "h", "o", "w", " ", "m", "e", " ", "t", "h", "e", " ", "s", "a", "l", "e", "s", " ", "t", "r", "e", "n", "d", " ", "o", "v", "e", "r", " ", "t", "i", "m", "e">>
Q4 == <<"W", "h", "o", " ", "a", "r", "e", " ", "t", "h", "e", " ", "t", "o", "p", " ", "c", "u", "s", "t", "o", "m", "e", "r", "s", " ", "b", "y", " ", "r", "e", "v", "e", "n", "u", "e", "?">>

\* str.lower(), character by character
UpperToLower ==
    [A |-> "a", B |-> "b", C |-> "c", D |-> "d", E |-> "e", F |-> "f", G |-> "g",
     H |-> "h", I |-> "i", J |-> "j", K |-> "k", L |-> "l", M |-> "m", N |-> "n",
     O |-> "o", P |-> "p", Q |-> "q", R |-> "r", S |-> "s", T |-> "t", U |-> "u",
     V |-> "v", W |-> "w", X |-> "x", Y |-> "y", Z |-> "z"]
LowerChar(ch) == IF ch \in DOMAIN UpperToLower THEN UpperToLower[ch] ELSE ch
Lower(s) == [i \in DOMAIN s |-> LowerChar(s[i])]

\* Python's `p in s` on strings
Contains(s, p) ==
    \E i \in 0..(Len(s) - Len(p)) : \A j \in 1..Len(p) : s[i + j] = p[j]

-----------------------------------------------------------------------------
(* class DatabaseAssistant *)

\* the SQL texts the assistant sends, by template
CountSql(table) == [sql |-> "SELECT COUNT(*) as count FROM {table}", table |-> table]
TopCustomersSql == [sql |-> "SELECT c.name, SUM(s.amount) as total_revenue ... LIMIT 5"]
AverageSql == [sql |-> "SELECT AVG(amount) as avg_amount FROM sales WHERE status = 'completed'"]
TrendSql == [sql |-> "SELECT DATE(created_at) as date, COUNT(*) as orders, SUM(amount) as revenue ..."]

Fallback ==
    Plain("I couldn't understand that question. Try asking about counts, averages, or top records.")
NoQuery(c) ==
    [client |-> c, posted |-> <<>>, calls |-> 0, via |-> c.session, ok |-> TRUE,
     outcome |-> Return(Fallback)]

\* result['results'][0][key]
FirstRowField(result, key) ==
    IF "results" \notin DOMAIN result THEN Raise("KeyError", "", Plain("results"))
    ELSE IF result.results = <<>> THEN Raise("IndexError", "", Plain("list index out of range"))
    ELSE IF key \notin DOMAIN result.results[1] THEN Raise("KeyError", "", Plain(key))
    ELSE Return(result.results[1][key])

\* for row in result['results']: one line per row from the fields in keys
RowLines(result, header, keys) ==
    IF "results" \notin DOMAIN result THEN Raise("KeyError", "", Plain("results"))
    ELSE IF \E i \in DOMAIN result.results : ~(keys \subseteq DOMAIN result.results[i])
         THEN Raise("KeyError", "", Plain("row"))
    ELSE Return([text |-> header,
                 rows |-> [i \in DOMAIN result.results |->
                              [k \in keys |-> result.results[i][k]]]])

Then(r, o) == IF Raised(r.outcome) THEN r ELSE [r EXCEPT !.outcome = o]

\* the body of `if "how many" in question_lower:`
CountBranch(ctx, c, question_lower, resp) ==
    LET hits == {k \in DOMAIN ctx.tables : Contains(question_lower, Lower(ctx.tables[k]))}
    IN  IF hits = {} THEN NoQuery(c)
        ELSE LET table == ctx.tables[CHOOSE k \in hits : \A j \in hits : k <= j]
                 r == query(c, CountSql(table), None, resp)
                 count == FirstRowField(r.outcome.value, "count")
             IN  Then(r, IF Raised(count) THEN count
                         ELSE Return([text |-> "There are {count} records in the {table} table.",
                                      count |-> count.value, table |-> table]))

\* the body of `elif "top" in question_lower and "by" in question_lower:`
TopBranch(c, question_lower, resp) ==
    IF Contains(question_lower, S_customers) /\ Contains(question_lower, S_revenue)
    THEN LET r == query(c, TopCustomersSql, None, resp)
         IN  Then(r, RowLines(r.outcome.value, "Top 5 customers by revenue:",
                              {"name", "total_revenue"}))
    ELSE NoQuery(c)

\* the body of `elif "average" in question_lower or "avg" in question_lower:`
AverageBranch(c, question_lower, resp) ==
    IF Contains(question_lower, S_order) \/ Contains(question_lower, S_sale)
    THEN LET r == query(c, AverageSql, None, resp)
             avg == FirstRowField(r.outcome.value, "avg_amount")
         IN  Then(r, IF Raised(avg) THEN avg
                     ELSE Return([text |-> "The average order value is ${avg:.2f}",
                                  avg |-> avg.value]))
    ELSE NoQuery(c)

\* the body of `elif "trend" in question_lower or "over time" in question_lower:`
TrendBranch(c, resp) ==
    LET r == query(c, TrendSql, None, resp)
    IN  Then(r, RowLines(r.outcome.value, "Sales trend for the last 7 days:",
                         {"date", "orders", "revenue"}))

\* mutant: the groups are tried in turn (if ... if ...) instead of if/elif
natural_language_query_fallthrough(ctx, c, question, resp) ==
    LET question_lower == Lower(question)
        count == CountBranch(ctx, c, question_lower, resp)
        top == TopBranch(c, question_lower, resp)
        average == AverageBranch(c, question_lower, resp)
    IN  IF Contains(question_lower, S_how_many) /\ count.calls > 0 THEN count
        ELSE IF /\ Contains(question_lower, S_top) /\ Contains(question_lower, S_by)
                /\ top.calls > 0
             THEN top
        ELSE IF /\ Contains(question_lower, S_average) \/ Contains(question_lower, S_avg)
                /\ average.calls > 0
             THEN average
        ELSE IF Contains(question_lower, S_trend) \/ Contains(question_lower, S_over_time)
             THEN TrendBranch(c, resp)
        ELSE NoQuery(c)

natural_language_query(ctx, c, question, resp) ==
    LET question_lower == Lower(question)
    IN  IF Contains(question_lower, S_how_many)
             THEN CountBranch(ctx, c, question_lower, resp)
        ELSE IF Contains(question_lower, S_top) /\ Contains(question_lower, S_by)
             THEN TopBranch(c, question_lower, resp)
        ELSE IF Contains(question_lower, S_average) \/ Contains(question_lower, S_avg)
             THEN AverageBranch(c, question_lower, resp)
        ELSE IF Contains(question_lower, S_trend) \/ Contains(question_lower, S_over_time)
             THEN TrendBranch(c, resp)
        ELSE NoQuery(c)

-----------------------------------------------------------------------------
(* DatabaseAssistant.analyze_performance and suggest_optimizations.         *)
(* A text is the sequence of its lines: "\n".join(parts) is the             *)
(* concatenation of the parts' lines.                                       *)

RECURSIVE Concat(_)
Concat(seqs) == IF seqs = <<>> THEN <<>> ELSE seqs[1] \o Concat(Tail(seqs))
Take(s, n) == SubSeq(s, 1, IF Len(s) < n THEN Len(s) ELSE n)

PerformanceQueries ==
    <<[sql |-> "SELECT COUNT(*) as total_tables FROM sqlite_master WHERE type='table'",
       label |-> "table_count"],
      [sql |-> "SELECT name, (SELECT COUNT(*) FROM pragma_table_info(name)) as column_count ...",
       label |-> "largest_tables"],
      [sql |-> "SELECT COUNT(*) as total_records, MIN(created_at) ..., MAX(created_at) ... FROM sales",
       label |-> "data_overview"]>>

LargestShown == 3

\* insights[0] = "Database Performance Analysis:\n": the header and an empty line
PerformanceHeader == <<[fmt |-> "Database Performance Analysis:"], [fmt |-> ""]>>

\* the lines one item of batch_result['results'] appends to insights
ItemInsights(result) ==
    IF result.label = "table_count"
    THEN <<[fmt |-> "* Total tables: {count}", count |-> result.results[1].total_tables]>>
    ELSE IF result.label = "largest_tables"
    THEN <<[fmt |-> "* Largest tables by column count:"]>>
         \o [i \in DOMAIN Take(result.results, LargestShown) |->
                [fmt |-> "  - {name}: {column_count} columns",
                 name |-> result.results[i].name,
                 column_count |-> result.results[i].column_count]]
    ELSE IF result.label = "data_overview"
    THEN <<[fmt |-> "* Sales data: {total_records} records",
            total_records |-> result.results[1].total_records],
           [fmt |-> "  Date range: {oldest_record} to {newest_record}",
            oldest_record |-> result.results[1].oldest_record,
            newest_record |-> result.results[1].newest_record]>>
    ELSE <<>>

\* mutant: `if result['success']:` alone, the results list is not tested
Insights_unguarded(batch_result) ==
    IF \E i \in DOMAIN batch_result.results :
          /\ batch_result.results[i].success
          /\ batch_result.results[i].results = <<>>
          /\ batch_result.results[i].label \in {"table_count", "data_overview"}
    THEN Raise("IndexError", "", Plain("list index out of range"))
    ELSE Return(PerformanceHeader \o
            Concat([i \in DOMAIN batch_result.results |->
                IF batch_result.results[i].success
                THEN ItemInsights(batch_result.results[i]) ELSE <<>>]))

\* the loop over batch_result['results'] and the final join
Insights(batch_result) ==
    Return(PerformanceHeader \o
        Concat([i \in DOMAIN batch_result.results |->
            IF batch_result.results[i].success /\ batch_result.results[i].results # <<>>
            THEN ItemInsights(batch_result.results[i]) ELSE <<>>]))

analyze_performance(c, resp) ==
    LET r == call_tool(c, "batch_query", [queries |-> PerformanceQueries], resp)
        batch_result == r.outcome.value
    IN  Then(r, IF "results" \notin DOMAIN batch_result
                THEN Raise("KeyError", "", Plain("results"))
                ELSE Insights(batch_result))

NullThreshold == 50
LowCardinality == 10
LargeTable == 100

\* a / b on numbers: the exact quotient, or ZeroDivisionError
TrueDiv(a, b) ==
    IF b = 0 THEN Raise("ZeroDivisionError", "", Plain("division by zero"))
    ELSE Return([num |-> a, den |-> b])
\* q * 100 > NullThreshold for a quotient with a positive denominator
Over(q, percent) == q.num * 100 > percent * q.den

\* mutant: the quotient is taken whatever total_rows is
NullPercentage_unguarded(stats, analysis) ==
    TrueDiv(stats.null_count, analysis.total_rows)

\* (null_count / total_rows * 100) if total_rows > 0 else 0, before the * 100
NullPercentage(stats, analysis) ==
    IF analysis.total_rows > 0 THEN TrueDiv(stats.null_count, analysis.total_rows)
    ELSE Return([num |-> 0, den |-> 1])

\* the suggestions for one column, in the order of the three checks
ColumnSuggestions(column, stats, analysis) ==
    LET null_percentage == NullPercentage(stats, analysis).value
    IN  (IF Over(null_percentage, NullThreshold)
         THEN <<[fmt |-> "* Column '{column}' has {pct}% NULL values", column |-> column]>>
         ELSE <<>>)
        \o
        (IF /\ stats.unique_count = analysis.total_rows
            /\ stats.data_type \in {"string", "integer"}
         THEN <<[fmt |-> "* Column '{column}' has all unique values", column |-> column]>>
         ELSE <<>>)
        \o
        (IF stats.unique_count < LowCardinality /\ analysis.total_rows > LargeTable
         THEN <<[fmt |-> "* Column '{column}' has low cardinality", column |-> column]>>
         ELSE <<>>)

\* statistics is the dict in its iteration order: column k is its k-th key
Suggestions(table, analysis) ==
    IF \E k \in DOMAIN analysis.statistics :
          Raised(NullPercentage(analysis.statistics[k], analysis))
    THEN Raise("ZeroDivisionError", "", Plain("division by zero"))
    ELSE Return(<<[fmt |-> "Optimization suggestions for '{table}' table:", table |-> table],
                  [fmt |-> ""]>>
                \o Concat([k \in DOMAIN analysis.statistics |->
                              ColumnSuggestions(k, analysis.statistics[k], analysis)]))

suggest_optimizations(c, table, resp) ==
    LET r == analyze_table(c, table, None, resp)
        analysis == r.outcome.value
    IN  Then(r, IF "statistics" \notin DOMAIN analysis
                THEN Raise("KeyError", "", Plain("statistics"))
                ELSE Suggestions(table, analysis))


-----------------------------------------------------------------------------
(* SpecNLQ: one question put to an assistant whose context is built *)

MaxWords == 3

Vocabulary ==
    {W_How_many, S_customers, S_sales, S_top, W_by_revenue,
     S_average, S_avg, S_order, S_trend, S_over_time}
TableNames == {S_customers, S_Sales}
\* the table lists the server may report: no table twice
TableLists ==
    {t \in UNION {[1..k -> TableNames] : k \in 0..Cardinality(TableNames)} :
        \A i, j \in DOMAIN t : i # j => t[i] # t[j]}

RECURSIVE JoinWords(_)
\* " ".join(words)
JoinWords(words) ==
    IF words = <<>> THEN <<>>
    ELSE IF Len(words) = 1 THEN words[1]
    ELSE words[1] \o <<" ">> \o JoinWords(Tail(words))

SeqsUpTo(S, n) == UNION {[1..k -> S] : k \in 0..n}
Questions == {JoinWords(w) : w \in SeqsUpTo(Vocabulary, MaxWords)}

FullRow ==
    [count |-> 3, name |-> "Ann", total_revenue |-> 10, avg_amount |-> 5,
     date |-> "2024-01-01", orders |-> 2, revenue |-> 20]
QueryPayloads == {[results |-> <<>>], [results |-> <<FullRow>>]}
\* the answers to a query that the assistant tells apart
QueryResponses ==
    {resp \in Responses(ToolResults(QueryPayloads)) :
        \/ ~resp.status_ok /\ resp.body = NotJson
        \/ resp.status_ok /\ resp.body \in {[error |-> [message |-> Plain("E1")]]}
        \/ /\ resp.status_ok
           /\ DOMAIN resp.body = {"result"}
           /\ resp.body.result.content # <<>>
           /\ "isError" \notin DOMAIN resp.body.result}

\* the client after MCPClient() and DatabaseAssistant(): initialize,
\* list_tables and one inspect_schema per table (of the first 5) were sent
BuiltClient(tables) ==
    [session |-> 1, request_id |-> 3 + Len(tables), ready |-> TRUE]

InitNLQ ==
    /\ pc = "nlq"
    /\ idx = 0
    /\ sessions = 1
    /\ \E tables \in TableLists :
        /\ clients = <<BuiltClient(tables)>>
        /\ context = [tables |-> tables, schemas |-> EmptyDict]
    /\ sent = <<>>
    /\ calls = 0
    /\ posts = 0
    /\ out = <<>>
    /\ asked = <<>>
    /\ last = NoLast

Ask ==
    /\ pc = "nlq"
    /\ \E q \in Questions, resp \in QueryResponses :
        LET r == natural_language_query(context, clients[1], q, resp)
        IN  /\ asked' = q
            /\ Update(1, r)
            /\ Record(1, "natural_language_query", None, resp, r)
    /\ pc' = "answered"
    /\ UNCHANGED <<idx, sessions, out, context>>

NextNLQ == Ask

SpecNLQ == InitNLQ /\ [][NextNLQ]_vars

\* C7, restated on the question asked
Answered == pc = "answered"
SentNothing == last.posted = <<>> /\ last.outcome = Return(Fallback)
SentOnly(sql) ==
    /\ Len(last.posted) = 1
    /\ last.posted[1].params.name = "query"
    /\ last.posted[1].params.arguments.sql = sql

\* C7: the first matching group in the order how many > top and by >
\* average/avg > trend/over time decides alone; at most one query is sent per
\* question; when that group's inner condition fails, or no group matches,
\* the fallback text is returned and nothing is sent, even if a lower group
\* matches; for how many the table is the first in context order whose
\* lower-cased name occurs in the question.
C7_FirstGroupDecides ==
    Answered =>
        LET ql == Lower(asked)
            IsHowMany == Contains(ql, S_how_many)
            IsTopBy == Contains(ql, S_top) /\ Contains(ql, S_by)
            IsAverage == Contains(ql, S_average) \/ Contains(ql, S_avg)
            IsTrend == Contains(ql, S_trend) \/ Contains(ql, S_over_time)
            named == {k \in DOMAIN context.tables : Contains(ql, Lower(context.tables[k]))}
        IN
        /\ Len(last.posted) <= 1
        /\ IsHowMany =>
              /\ named = {} => SentNothing
              /\ \A k \in named :
                    (\A j \in named : k <= j) => SentOnly(CountSql(context.tables[k]))
        /\ (~IsHowMany /\ IsTopBy) =>
              IF Contains(ql, S_customers) /\ Contains(ql, S_revenue)
              THEN SentOnly(TopCustomersSql) ELSE SentNothing
        /\ (~IsHowMany /\ ~IsTopBy /\ IsAverage) =>
              IF Contains(ql, S_order) \/ Contains(ql, S_sale)
              THEN SentOnly(AverageSql) ELSE SentNothing
        /\ (~IsHowMany /\ ~IsTopBy /\ ~IsAverage /\ IsTrend) => SentOnly(TrendSql)
        /\ (~IsHowMany /\ ~IsTopBy /\ ~IsAverage /\ ~IsTrend) => SentNothing

\* "how many" with no table named, although the trend group matches too
C7_Witness ==
    /\ Answered
    /\ Contains(Lower(asked), S_how_many)
    /\ Contains(Lower(asked), S_trend)
    /\ context.tables # <<>>
    /\ \A k \in DOMAIN context.tables : ~Contains(Lower(asked), Lower(context.tables[k]))
    /\ SentNothing

-----------------------------------------------------------------------------
(* SpecPerf: one analyze_performance call; SpecOpt: one                     *)
(* suggest_optimizations call                                               *)

MaxBatchItems == 2
MaxRows == 4
MaxColumns == 1

OkResponse(payload) ==
    [status_ok |-> TRUE, body |-> [result |-> [content |-> <<[text |-> Json(payload)]>>]]]
\* responses on which the tool call fails, and one whose document is empty
FailResponses == Responses(ToolResults({EmptyDict}))

BatchLabels == {"table_count", "largest_tables", "data_overview", "monthly_summary"}
BatchRow(i) ==
    [total_tables |-> i, name |-> i, column_count |-> i,
     total_records |-> i, oldest_record |-> "2024-01-01", newest_record |-> "2024-12-31"]
BatchItems ==
    {[label |-> l, success |-> s, results |-> [i \in 1..n |-> BatchRow(i)]] :
        l \in BatchLabels, s \in BOOLEAN, n \in 0..MaxRows}
PerfResponses ==
    FailResponses
    \cup {OkResponse([results |-> items]) : items \in SeqsUpTo(BatchItems, MaxBatchItems)}

InitAssistant(at) ==
    /\ pc = at
    /\ idx = 0
    /\ sessions = 1
    /\ clients = <<BuiltClient(<<S_sales>>)>>
    /\ context = [tables |-> <<S_sales>>, schemas |-> EmptyDict]
    /\ sent = <<>>
    /\ calls = 0
    /\ posts = 0
    /\ out = <<>>
    /\ asked = <<>>
    /\ last = NoLast

InitPerf == InitAssistant("perf")

AnalyzePerformance ==
    /\ pc = "perf"
    /\ \E resp \in PerfResponses :
        LET r == analyze_performance(clients[1], resp)
        IN  /\ Update(1, r)
            /\ Record(1, "analyze_performance", None, resp, r)
    /\ pc' = "analyzed"
    /\ UNCHANGED <<idx, sessions, out, context, asked>>

NextPerf == AnalyzePerformance

SpecPerf == InitPerf /\ [][NextPerf]_vars

StatsInputs ==
    [null_count : {0, 1, 2, 50, 51, 101},
     unique_count : {0, 1, 2, 9, 10, 101},
     data_type : {"string", "integer", "float"}]
Analyses ==
    [total_rows : {0, 1, 2, 100, 101, 102},
     statistics : SeqsUpTo(StatsInputs, MaxColumns)]
OptResponses == FailResponses \cup {OkResponse(a) : a \in Analyses}

InitOpt == InitAssistant("opt")

SuggestOptimizations ==
    /\ pc = "opt"
    /\ \E resp \in OptResponses :
        LET r == suggest_optimizations(clients[1], S_sales, resp)
        IN  /\ Update(1, r)
            /\ Record(1, "suggest_optimizations", [table |-> S_sales], resp, r)
    /\ pc' = "suggested"
    /\ UNCHANGED <<idx, sessions, out, context, asked>>

NextOpt == SuggestOptimizations

SpecOpt == InitOpt /\ [][NextOpt]_vars

\* the document the tool call decoded, when it returned one
Decoded == last.resp.body.result.content[1].text.json
GotDocument(key) ==
    /\ last.resp.status_ok
    /\ DOMAIN last.resp.body = {"result"}
    /\ last.resp.body.result.content # <<>>
    /\ ~("isError" \in DOMAIN last.resp.body.result /\ last.resp.body.result.isError)
    /\ "json" \in DOMAIN last.resp.body.result.content[1].text
    /\ key \in DOMAIN Decoded

\* the lines the claim gives an item, named by the label they belong to
RECURSIVE Repeat(_, _)
Repeat(x, n) == IF n = 0 THEN <<>> ELSE <<x>> \o Repeat(x, n - 1)
ClaimedLines(item) ==
    IF ~item.success \/ item.results = <<>> THEN <<>>
    ELSE IF item.label = "table_count" THEN <<"table_count">>
    ELSE IF item.label = "largest_tables"
         THEN Repeat("largest_tables", 1 + (IF Len(item.results) > 3 THEN 3 ELSE Len(item.results)))
    ELSE IF item.label = "data_overview" THEN <<"data_overview", "data_overview">>
    ELSE <<>>
LabelOfLine(line) ==
    CASE line.fmt = "* Total tables: {count}" -> "table_count"
      [] line.fmt \in {"* Largest tables by column count:",
                       "  - {name}: {column_count} columns"} -> "largest_tables"
      [] line.fmt \in {"* Sales data: {total_records} records",
                       "  Date range: {oldest_record} to {newest_record}"} -> "data_overview"
      [] OTHER -> "none"

\* C9: analyze_performance sends exactly one batch_query request; for any
\* batch response the text returned starts with the header line; an item
\* with success false or no results adds no line and raises nothing; every
\* other item adds only the lines of its own label (table_count 1,
\* largest_tables 1 plus at most 3, data_overview 2), in response order.
C9_Insights ==
    pc = "analyzed" =>
        /\ Len(last.posted) = 1
        /\ last.posted[1].method = "tools/call"
        /\ last.posted[1].params.name = "batch_query"
        /\ GotDocument("results") =>
              /\ ~Raised(last.outcome)
              /\ last.outcome.value[1] = [fmt |-> "Database Performance Analysis:"]
              /\ LET body == SubSeq(last.outcome.value, 3, Len(last.outcome.value))
                 IN  [i \in DOMAIN body |-> LabelOfLine(body[i])]
                        = Concat([k \in DOMAIN Decoded.results |->
                                     ClaimedLines(Decoded.results[k])])

\* a successful item without rows ahead of a largest_tables item of 4 rows
C9_Witness ==
    /\ pc = "analyzed"
    /\ GotDocument("results")
    /\ Len(Decoded.results) = 2
    /\ Decoded.results[1].success
    /\ Decoded.results[1].results = <<>>
    /\ Decoded.results[1].label = "table_count"
    /\ Decoded.results[2].success
    /\ Decoded.results[2].label = "largest_tables"
    /\ Len(Decoded.results[2].results) = 4
    /\ Len(last.outcome.value) = 6

HasLine(fmt, k) ==
    \E i \in DOMAIN last.outcome.value :
        last.outcome.value[i] = [fmt |-> fmt, column |-> k]

\* C10: suggest_optimizations never divides by zero: with total_rows = 0 the
\* NULL percentage is 0 and neither the NULL-values nor the low-cardinality
\* suggestion appears; with total_rows > 0 the NULL-values suggestion appears
\* exactly when null_count * 100 > 50 * total_rows, all-unique exactly when
\* unique_count = total_rows and data_type is string or integer, and
\* low-cardinality exactly when unique_count < 10 and total_rows > 100; the
\* three checks are independent.
C10_Suggestions ==
    (pc = "suggested" /\ GotDocument("statistics")) =>
        /\ ~Raised(last.outcome)
        /\ \A k \in DOMAIN Decoded.statistics :
            LET stats == Decoded.statistics[k]
                total_rows == Decoded.total_rows
            IN  /\ total_rows = 0 =>
                      /\ ~HasLine("* Column '{column}' has {pct}% NULL values", k)
                      /\ ~HasLine("* Column '{column}' has low cardinality", k)
                /\ total_rows > 0 =>
                      /\ HasLine("* Column '{column}' has {pct}% NULL values", k)
                            <=> stats.null_count * 100 > 50 * total_rows
                      /\ HasLine("* Column '{column}' has all unique values", k)
                            <=> /\ stats.unique_count = total_rows
                                /\ stats.data_type \in {"string", "integer"}
                      /\ HasLine("* Column '{column}' has low cardinality", k)
                            <=> stats.unique_count < 10 /\ total_rows > 100

\* an empty table whose column reports NULLs, and the call returned
C10_Witness ==
    /\ pc = "suggested"
    /\ GotDocument("statistics")
    /\ Decoded.total_rows = 0
    /\ Len(Decoded.statistics) = 1
    /\ Decoded.statistics[1].null_count > 0
    /\ ~Raised(last.outcome)

-----------------------------------------------------------------------------
(* Spec: one run of the script's main block: demo_conversation(), then      *)
(* advanced_ai_integration(), inside try/except Exception                   *)

TableLimit == 5
AllTables == <<S_customers, S_Sales, S_products, S_orders, S_users, S_logs>>
\* the table lists the server reports in a run
ScriptTableLists ==
    {SubSeq(AllTables, 1, b) : b \in 0..Len(AllTables)}
    \cup {SubSeq(AllTables, 2, Len(AllTables))}

\* the ways a request of the run can go wrong: HTTP error status, JSON-RPC
\* error, tool error, text that is no JSON, and an empty document
ScriptFailures ==
    {[status_ok |-> FALSE, body |-> NotJson],
     [status_ok |-> FALSE, body |-> [error |-> [message |-> Plain("E1")]]],
     [status_ok |-> TRUE, body |-> [error |-> [message |-> Plain("E1")]]],
     [status_ok |-> TRUE,
      body |-> [result |-> [isError |-> TRUE, content |-> <<[text |-> Plain("T1")]>>]]],
     [status_ok |-> TRUE,
      body |-> [result |-> [content |-> <<[text |-> Plain("T1")]>>]]],
     OkResponse(EmptyDict)}
InitializeResponses ==
    {[status_ok |-> TRUE, body |-> [result |-> r]] : r \in InitResults}
    \cup {resp \in ScriptFailures : "error" \in DOMAIN resp.body \/ ~resp.status_ok}
ListTablesResponses ==
    ScriptFailures \cup {OkResponse([tables |-> t]) : t \in ScriptTableLists}
InspectSchemaResponses ==
    ScriptFailures \cup {OkResponse([columns |-> <<"id">>])}
ScriptQueryResponses ==
    ScriptFailures \cup {OkResponse(p) : p \in QueryPayloads}
ScriptBatchResponses ==
    ScriptFailures
    \cup {OkResponse([results |-> <<>>]),
          OkResponse([results |->
              <<[label |-> "table_count", success |-> TRUE, results |-> <<BatchRow(1)>>],
                [label |-> "largest_tables", success |-> TRUE,
                 results |-> <<BatchRow(1), BatchRow(2)>>],
                [label |-> "data_overview", success |-> FALSE, results |-> <<>>]>>])}
ScriptAnalyzeResponses ==
    ScriptFailures
    \cup {OkResponse([total_rows |-> 0, statistics |->
              <<[null_count |-> 0, unique_count |-> 0, data_type |-> "integer"]>>]),
          OkResponse([total_rows |-> 101, statistics |->
              <<[null_count |-> 51, unique_count |-> 9, data_type |-> "string"]>>])}
ReportRow ==
    [customers |-> 3, orders |-> 7, revenue |-> 70, avg_order |-> 10,
     category |-> "books", units_sold |-> 7, day_of_week |-> "1", order_count |-> 2]
ScriptReportResponses ==
    ScriptFailures
    \cup {OkResponse([results |-> <<>>]),
          OkResponse([results |->
              <<[label |-> "monthly_summary", success |-> TRUE, results |-> <<ReportRow>>],
                [label |-> "top_categories", success |-> TRUE, results |-> <<ReportRow>>],
                [label |-> "best_day", success |-> TRUE, results |-> <<>>]>>])}
StreamKeys == {"total_rows", "batch_size", "batch_count", "batches"}
ScriptStreamResponses ==
    ScriptFailures
    \cup {OkResponse([total_rows |-> n, batch_size |-> 100, batch_count |-> Len(b),
                      batches |-> b]) :
            n \in {0, 1}, b \in {<<>>, << <<>> >>, << <<ReportRow>> >>}}

DemoQuestions == <<Q1, Q2, Q3, Q4>>

\* DatabaseAssistant._build_context, the part before the loop
build_context_tables(c, resp) ==
    LET r == get_tables(c, resp)
    IN  Then(r, Return([tables |-> r.outcome.value.items, schemas |-> EmptyDict]))

\* one turn of `for table in tables[:5]`: try inspect_schema, except: pass
inspect_table(ctx, c, table, resp) ==
    LET r == call_tool(c, "inspect_schema", [table |-> table], resp)
    IN  [r EXCEPT !.outcome =
            IF Raised(r.outcome) THEN Return(ctx)
            ELSE Return([ctx EXCEPT !.schemas =
                    [t \in DOMAIN @ \cup {table} |->
                        IF t = table THEN r.outcome.value ELSE @[t]]])]

\* the lines advanced_ai_integration prints for one item of report_data
ReportLines(result) ==
    IF ~(result.success /\ result.results # <<>>) THEN <<>>
    ELSE IF result.label = "monthly_summary"
         THEN <<"Key Metrics:", "* Active Customers", "* Total Orders",
                "* Total Revenue", "* Average Order Value", "">>
    ELSE IF result.label = "top_categories"
         THEN <<"Top Performing Categories:">>
              \o [i \in DOMAIN result.results |-> "{i}. {category}"] \o <<"">>
    ELSE IF result.label = "best_day" THEN <<"Best Sales Day", "">>
    ELSE <<>>

\* the batch_query of advanced_ai_integration and the report printed from it
executive_report(c, resp) ==
    LET r == call_tool(c, "batch_query", [queries |-> <<"monthly_summary", "top_categories", "best_day">>], resp)
        report_data == r.outcome.value
        o == IF Raised(r.outcome) THEN r.outcome
             ELSE IF "results" \notin DOMAIN report_data
                  THEN Raise("KeyError", "", Plain("results"))
             ELSE Return(None)
    IN  [client |-> r.client, posted |-> r.posted, calls |-> r.calls, via |-> r.via,
         ok |-> r.ok, outcome |-> o,
         printed |-> <<"Generating executive summary report...">>
                     \o (IF Raised(r.outcome) THEN <<>>
                         ELSE <<"EXECUTIVE SUMMARY - Last 30 Days">>
                              \o (IF Raised(o) THEN <<>>
                                  ELSE Concat([i \in DOMAIN report_data.results |->
                                           ReportLines(report_data.results[i])])))]

\* the stream_query of advanced_ai_integration and what is printed from it
training_sample(c, resp) ==
    LET r == call_tool(c, "stream_query", [sql |-> "SELECT amount, ...", batch_size |-> 100], resp)
        stream_result == r.outcome.value
        o == IF Raised(r.outcome) THEN r.outcome
             ELSE IF ~(StreamKeys \subseteq DOMAIN stream_result)
                  THEN Raise("KeyError", "", Plain("total_rows"))
             ELSE IF stream_result.batches # <<>> /\ stream_result.batches[1] = <<>>
                  THEN Raise("IndexError", "", Plain("list index out of range"))
             ELSE Return(None)
    IN  [client |-> r.client, posted |-> r.posted, calls |-> r.calls, via |-> r.via,
         ok |-> r.ok, outcome |-> o,
         printed |-> <<"Preparing data for ML model training...">>
                     \o (IF Raised(r.outcome) \/ ~(StreamKeys \subseteq DOMAIN stream_result)
                         THEN <<>>
                         ELSE <<"* Total training samples", "* Batch size",
                                "* Number of batches", "First batch sample">>
                              \o (IF Raised(o) \/ stream_result.batches = <<>> THEN <<>>
                                  ELSE <<"  Features", "  Sample">>))]

\* except Exception as e: the three lines printed, and the run is over
ErrorLines == <<"Error: {e}", "Make sure the MCP server is running:", "redi-orm mcp ...">>
Completed == "=== Demo completed successfully! ==="

\* mutant: no try/except around the steps; a failure is dropped and the
\* script carries on
Continue_swallow(r, before, after, next, nextidx) ==
    /\ pc' = next
    /\ idx' = nextidx
    /\ out' = out \o before \o after

\* the try/except of the main block around one step of the run: before is
\* printed ahead of the step, after when it returned; on an exception the
\* handler prints the error and the run is over
Continue(r, before, after, next, nextidx) ==
    IF Raised(r.outcome)
    THEN /\ pc' = "done"
         /\ idx' = 0
         /\ out' = out \o before \o ErrorLines
    ELSE /\ pc' = next
         /\ idx' = nextidx
         /\ out' = out \o before \o after

Init ==
    /\ pc = "start"
    /\ idx = 0
    /\ sessions = 0
    /\ clients = <<>>
    /\ sent = <<>>
    /\ calls = 0
    /\ posts = 0
    /\ out = <<>>
    /\ context = None
    /\ asked = <<>>
    /\ last = NoLast

\* demo_conversation: mcp = MCPClient()
DemoConnect ==
    /\ pc = "start"
    /\ \E resp \in InitializeResponses :
        LET r == MCPClient(sessions + 1, resp)
        IN  /\ sessions' = sessions + 1
            /\ clients' = Append(clients, r.client)
            /\ Record(1, "MCPClient", None, resp, r)
            /\ Continue(r, <<"=== AI ASSISTANT DATABASE DEMO ===">>, r.printed,
                        "build_context", 0)
    /\ UNCHANGED <<context, asked>>

\* DatabaseAssistant(mcp): _build_context up to the loop
BuildContext ==
    /\ pc = "build_context"
    /\ \E resp \in ListTablesResponses :
        LET r == build_context_tables(clients[1], resp)
        IN  /\ Update(1, r)
            /\ Record(1, "get_tables", None, resp, r)
            /\ context' = IF Raised(r.outcome) THEN context ELSE r.outcome.value
            /\ Continue(r, <<>>, <<>>,
                        IF Raised(r.outcome) \/ r.outcome.value.tables = <<>>
                        THEN "ask" ELSE "inspect", 1)
    /\ UNCHANGED <<sessions, asked>>

\* one turn of the loop of _build_context
InspectSchema ==
    /\ pc = "inspect"
    /\ \E resp \in InspectSchemaResponses :
        LET r == inspect_table(context, clients[1], context.tables[idx], resp)
            more == idx < Len(Take(context.tables, TableLimit))
        IN  /\ Update(1, r)
            /\ Record(1, "inspect_schema", None, resp, r)
            /\ context' = IF Raised(r.outcome) THEN context ELSE r.outcome.value
            /\ Continue(r, <<>>, <<>>, IF more THEN "inspect" ELSE "ask",
                        IF more THEN idx + 1 ELSE 1)
    /\ UNCHANGED <<sessions, asked>>

\* one turn of `for question in questions`
AskQuestion ==
    /\ pc = "ask"
    /\ \E resp \in ScriptQueryResponses :
        LET r == natural_language_query(context, clients[1], DemoQuestions[idx], resp)
            more == idx < Len(DemoQuestions)
        IN  /\ asked' = DemoQuestions[idx]
            /\ Update(1, r)
            /\ Record(1, "natural_language_query", None, resp, r)
            /\ Continue(r, <<"Human: {question}">>, <<"Assistant: {answer}">>,
                        IF more THEN "ask" ELSE "performance",
                        IF more THEN idx + 1 ELSE 0)
    /\ UNCHANGED <<sessions, context>>

DemoPerformance ==
    /\ pc = "performance"
    /\ \E resp \in ScriptBatchResponses :
        LET r == analyze_performance(clients[1], resp)
        IN  /\ Update(1, r)
            /\ Record(1, "analyze_performance", None, resp, r)
            /\ Continue(r, <<"Human: Can you analyze the database performance?">>,
                        <<"Assistant: {analysis}">>, "optimizations", 0)
    /\ UNCHANGED <<sessions, context, asked>>

DemoOptimizations ==
    /\ pc = "optimizations"
    /\ \E resp \in ScriptAnalyzeResponses :
        LET r == suggest_optimizations(clients[1], S_sales, resp)
        IN  /\ Update(1, r)
            /\ Record(1, "suggest_optimizations", [table |-> S_sales], resp, r)
            /\ Continue(r, <<"Human: Any optimization suggestions for the sales table?">>,
                        <<"Assistant: {suggestions}">>, "advanced", 0)
    /\ UNCHANGED <<sessions, context, asked>>

\* advanced_ai_integration: mcp = MCPClient()
AdvancedConnect ==
    /\ pc = "advanced"
    /\ \E resp \in InitializeResponses :
        LET r == MCPClient(sessions + 1, resp)
        IN  /\ sessions' = sessions + 1
            /\ clients' = Append(clients, r.client)
            /\ Record(Len(clients) + 1, "MCPClient", None, resp, r)
            /\ Continue(r, <<"=== ADVANCED AI INTEGRATION ===">>, r.printed, "report", 0)
    /\ UNCHANGED <<context, asked>>

AdvancedReport ==
    /\ pc = "report"
    /\ \E resp \in ScriptReportResponses :
        LET r == executive_report(clients[Len(clients)], resp)
        IN  /\ Update(Len(clients), r)
            /\ Record(Len(clients), "executive_report", None, resp, r)
            /\ Continue(r, r.printed, <<>>, "stream", 0)
    /\ UNCHANGED <<sessions, context, asked>>

\* the stream_query, and the last line of the try block
AdvancedStream ==
    /\ pc = "stream"
    /\ \E resp \in ScriptStreamResponses :
        LET r == training_sample(clients[Len(clients)], resp)
        IN  /\ Update(Len(clients), r)
            /\ Record(Len(clients), "training_sample", None, resp, r)
            /\ Continue(r, r.printed, <<Completed>>, "done", 0)
    /\ UNCHANGED <<sessions, context, asked>>

Next ==
    \/ DemoConnect
    \/ BuildContext
    \/ InspectSchema
    \/ AskQuestion
    \/ DemoPerformance
    \/ DemoOptimizations
    \/ AdvancedConnect
    \/ AdvancedReport
    \/ AdvancedStream

Spec == Init /\ [][Next]_vars

Printed(line) == \E i \in DOMAIN out : out[i] = line
FatalAt(k) ==
    /\ k = Len(sent)
    /\ pc = "done"
    /\ Printed("Error: {e}")
    /\ ~Printed(Completed)

\* C2 as stated: whichever request fails (initialize, list_tables,
\* inspect_schema, query, batch_query, analyze_table, stream_query), no
\* request is sent after it, an Error line is printed and the completion
\* line is not.
C2_AsStated ==
    \A k \in DOMAIN sent : ~sent[k].ok => FatalAt(k)

\* C2 amended: the same for every request but inspect_schema; a failed
\* inspect_schema is swallowed by _build_context and the run goes on.
C2_FailuresFatal ==
    /\ \A k \in DOMAIN sent :
          (~sent[k].ok /\ sent[k].tool # "inspect_schema") => FatalAt(k)
    /\ (Called /\ Raised(last.outcome)) => FatalAt(Len(sent))
    /\ Printed(Completed) =>
          \A k \in DOMAIN sent : sent[k].ok \/ sent[k].tool = "inspect_schema"

\* a query failed with a tool error after an inspect_schema had failed
C2_Witness ==
    /\ pc = "done"
    /\ \E k \in DOMAIN sent : ~sent[k].ok /\ sent[k].tool = "inspect_schema"
    /\ ~sent[Len(sent)].ok
    /\ sent[Len(sent)].tool = "query"
    /\ "result" \in DOMAIN last.resp.body
    /\ Printed("Error: {e}")

\* C4 as stated: at every point of the run at most one session has been
\* created and every request is posted through it.
C4_AsStated ==
    /\ sessions <= 1
    /\ \A k \in DOMAIN sent : sent[k].session = 1

\* C4 amended: every MCPClient creates one session of its own and posts all
\* its requests through it; the run creates one client in demo_conversation
\* and a second in advanced_ai_integration, so at most two sessions, and a
\* request goes through the session of the client that sends it.
C4_SessionPerClient ==
    /\ sessions = Len(clients)
    /\ sessions <= 2
    /\ \A i \in DOMAIN clients : clients[i].session = i
    /\ \A k \in DOMAIN sent : sent[k].session = clients[sent[k].client].session
    /\ \A j, k \in DOMAIN sent : (j < k) => sent[j].session <= sent[k].session

C4_Witness ==
    /\ sessions = 2
    /\ \E j, k \in DOMAIN sent :
          /\ sent[j].session = 1
          /\ sent[k].session = 2
          /\ sent[k].method = "tools/call"

====
